---- MODULE Spec2Model ----
(***************************************************************************)
(* Waterlogging risk map (Leaflet RiskMap component, the Index page and    *)
(* the RiskIndicator): the one-shot CSV load, the location requests with   *)
(* their geolocation callbacks, and the nearest-cell classifier            *)
(* checkRiskLevel.                                                         *)
(*                                                                         *)
(* Coordinates are integers (fixed-point units of longitude/latitude).     *)
(* Math.sqrt is strictly increasing on the bounded integers used here, so  *)
(* a distance is represented by its square; NaN and Infinity are kept as   *)
(* distinct values because the comparison distance < minDistance treats    *)
(* them specially.                                                         *)
(***************************************************************************)
EXTENDS Integers, Sequences, FiniteSets, TLC

\* Largest coordinate of a cell center or of a geolocation fix.
MaxCoord == 1
\* Largest number of data rows in a CSV document.
MaxRows == 2
\* Largest number of clicks on "Get My Location" in a session.
MaxRequests == 2

---------------------------------------------------------------------------
(* JavaScript values held by a parsed cell or by React state.             *)

Num(n) == [t |-> "number", n |-> n, s |-> ""]
Str(s) == [t |-> "string", n |-> 0, s |-> s]
Null == [t |-> "null", n |-> 0, s |-> ""]
Undefined == [t |-> "undefined", n |-> 0, s |-> ""]

(* JavaScript numbers as the arithmetic of checkRiskLevel sees them.      *)
Finite(n) == [nan |-> FALSE, inf |-> FALSE, n |-> n]
NaN == [nan |-> TRUE, inf |-> FALSE, n |-> 0]
Infinity == [nan |-> FALSE, inf |-> TRUE, n |-> 0]

\* ToNumber, applied by the binary minus: null is 0, undefined is NaN, the
\* empty string is 0 and any other non-numeric string is NaN.
ToNumber(v) ==
  CASE v.t = "number" -> Finite(v.n)
    [] v.t = "null" -> Finite(0)
    [] v.t = "undefined" -> NaN
    [] v.t = "string" -> IF v.s = "" THEN Finite(0) ELSE NaN

\* !v is true for 0, null, undefined and the empty string.
Falsy(v) ==
  \/ v.t = "null"
  \/ v.t = "undefined"
  \/ v.t = "number" /\ v.n = 0
  \/ v.t = "string" /\ v.s = ""

---------------------------------------------------------------------------
(* The CSV document and Papa.parse(csvText, {header, dynamicTyping}).      *)
(* A document is a sequence of lines, a line a sequence of raw fields.     *)
(* The three count columns are left out: no modelled code reads them.      *)

Header == <<"Grid_Center_Lon", "Grid_Center_Lat", "Dominant_Risk">>

Numerals == {ToString(i) : i \in 0..MaxCoord}

ParseFloat(s) == CHOOSE i \in 0..MaxCoord : ToString(i) = s

\* dynamicTyping: a numeric field becomes a number, an empty field null,
\* anything else stays a string.
DynamicTyping(s) ==
  IF s \in Numerals THEN Num(ParseFloat(s))
  ELSE IF s = "" THEN Null
  ELSE Str(s)

\* header: true keys each field by the header of its column; a column the
\* line does not reach, or the header does not name, is left undefined.
Field(header, line, name) ==
  IF \E i \in 1..Len(header) : header[i] = name /\ i <= Len(line)
  THEN LET i == CHOOSE k \in 1..Len(header) :
                  /\ header[k] = name
                  /\ k <= Len(line)
                  /\ \A j \in 1..(k - 1) : header[j] # name
       IN DynamicTyping(line[i])
  ELSE Undefined

ParseRow(header, line) ==
  [Grid_Center_Lon |-> Field(header, line, "Grid_Center_Lon"),
   Grid_Center_Lat |-> Field(header, line, "Grid_Center_Lat"),
   Dominant_Risk |-> Field(header, line, "Dominant_Risk")]

\* results.data: one object per line after the header line.  No line is
\* skipped (skipEmptyLines is off), so a trailing line break yields a last
\* object whose only field is null.
RECURSIVE ParseLines(_, _, _)
ParseLines(header, csvText, k) ==
  IF k > Len(csvText) THEN <<>>
  ELSE <<ParseRow(header, csvText[k])>> \o ParseLines(header, csvText, k + 1)

PapaParse(csvText) ==
  IF csvText = <<>> THEN <<>>
  ELSE ParseLines(csvText[1], csvText, 2)

---------------------------------------------------------------------------
(* checkRiskLevel: the nearest-cell scan.                                  *)

Sub(a, b) ==
  IF a.nan \/ b.nan THEN NaN ELSE Finite(a.n - b.n)

Square(a) ==
  IF a.nan THEN NaN ELSE Finite(a.n * a.n)

Add(a, b) ==
  IF a.nan \/ b.nan THEN NaN ELSE Finite(a.n + b.n)

\* Mutation: the latitude term is dropped from the distance.
DistanceLonOnly(grid, lon, lat) ==
  Square(Sub(ToNumber(grid.Grid_Center_Lon), Finite(lon)))

\* Math.sqrt(Math.pow(lon difference, 2) + Math.pow(lat difference, 2)),
\* kept as its square.
Distance(grid, lon, lat) ==
  Add(Square(Sub(ToNumber(grid.Grid_Center_Lon), Finite(lon))),
      Square(Sub(ToNumber(grid.Grid_Center_Lat), Finite(lat))))

\* Mutation: <= in place of <.
LessOrEqual(a, b) ==
  /\ ~a.nan
  /\ ~b.nan
  /\ \/ ~a.inf /\ b.inf
     \/ a.inf /\ b.inf
     \/ ~a.inf /\ ~b.inf /\ a.n <= b.n

\* a < b on numbers: false when either side is NaN.
Less(a, b) ==
  /\ ~a.nan
  /\ ~b.nan
  /\ \/ ~a.inf /\ b.inf
     \/ ~a.inf /\ ~b.inf /\ a.n < b.n

\* The forEach loop from cell i on; nearestGrid is an index into the list,
\* 0 standing for null.
RECURSIVE Scan(_, _, _, _, _, _)
Scan(cells, lon, lat, i, nearestGrid, minDistance) ==
  IF i > Len(cells) THEN nearestGrid
  ELSE LET distance == Distance(cells[i], lon, lat)
       IN IF Less(distance, minDistance)
          THEN Scan(cells, lon, lat, i + 1, i, distance)
          ELSE Scan(cells, lon, lat, i + 1, nearestGrid, minDistance)

\* Mutation: minDistance starts at 0 instead of Infinity.
NearestGridFromZero(cells, lon, lat) == Scan(cells, lon, lat, 1, 0, Finite(0))

NearestGrid(cells, lon, lat) == Scan(cells, lon, lat, 1, 0, Infinity)

\* Names every object literal inherits from Object.prototype: a lookup of
\* one of them in riskMessages finds the inherited member, which is truthy.
ObjectPrototypeMembers ==
  {"constructor", "toString", "toLocaleString", "valueOf", "hasOwnProperty",
   "isPrototypeOf", "propertyIsEnumerable", "__proto__"}

\* Stands for the inherited member (a function or object, not a string).
InheritedMember == "[Object.prototype member]"

\* riskMessages[Dominant_Risk] || "Unknown risk level"
RiskMessage(risk) ==
  IF risk = Str("Low") THEN "You are in a Low risk zone. Stay alert for updates."
  ELSE IF risk = Str("Moderate")
  THEN "You are in a Moderate risk zone. Monitor conditions closely."
  ELSE IF risk = Str("High")
  THEN "You are in a High risk zone! Take precautions immediately."
  ELSE IF risk.t = "string" /\ risk.s \in ObjectPrototypeMembers
  THEN InheritedMember
  ELSE "Unknown risk level"

Toast(type, message) == [type |-> type, message |-> message]

\* The notification checkRiskLevel raises for the selected cell's label.
RiskToast(risk) ==
  IF risk = Str("High") THEN Toast("error", RiskMessage(risk))
  ELSE IF risk = Str("Moderate") THEN Toast("warning", RiskMessage(risk))
  ELSE Toast("success", RiskMessage(risk))

\* One run of checkRiskLevel over the cell list its closure holds: the cell
\* it selects, its calls of onRiskChange and the notifications it raises.
\* loaded records whether the CSV load had completed when it ran.
CheckRiskLevel(cells, lon, lat, loaded) ==
  LET nearestGrid == NearestGrid(cells, lon, lat)
  IN [ran |-> TRUE,
      loaded |-> loaded,
      cells |-> cells,
      lon |-> lon,
      lat |-> lat,
      nearestGrid |-> nearestGrid,
      calls |-> IF nearestGrid # 0 THEN 1 ELSE 0,
      arg |-> IF nearestGrid # 0 THEN cells[nearestGrid].Dominant_Risk
              ELSE Undefined,
      toasts |-> IF nearestGrid # 0
                 THEN <<RiskToast(cells[nearestGrid].Dominant_Risk)>>
                 ELSE <<>>]

NoCheck ==
  [ran |-> FALSE, loaded |-> FALSE, cells |-> <<>>, lon |-> 0, lat |-> 0,
   nearestGrid |-> 0, calls |-> 0, arg |-> Undefined, toasts |-> <<>>]

---------------------------------------------------------------------------
(* RiskIndicator.getRiskConfig.                                            *)

\* String.prototype.toLowerCase on the strings that occur.
ToLowerCase(s) ==
  CASE s = "Low" -> "low"
    [] s = "Moderate" -> "moderate"
    [] s = "High" -> "high"
    [] s = "HIGH" -> "high"
    [] s = "Severe" -> "severe"
    [] OTHER -> s

\* The text of the configuration the switch returns; risk.toLowerCase()
\* throws a TypeError when risk is not a string.
GetRiskConfig(risk) ==
  IF risk.t # "string" THEN "TypeError"
  ELSE CASE ToLowerCase(risk.s) = "low" -> "Low Risk"
         [] ToLowerCase(risk.s) = "moderate" -> "Moderate Risk"
         [] ToLowerCase(risk.s) = "high" -> "High Risk"
         [] OTHER -> "Unknown"

---------------------------------------------------------------------------
(* The grid marker effect.                                                 *)

Rendered(grid) ==
  ~(Falsy(grid.Grid_Center_Lon) \/ Falsy(grid.Grid_Center_Lat))

\* gridData.forEach of the marker effect: one marker per cell it does not
\* skip, in list order.
GridMarkers(cells) == SelectSeq(cells, Rendered)

---------------------------------------------------------------------------
(* State.                                                                  *)

VARIABLES
  response,      \* what the server answers to the fetch of the CSV
  geolocation,   \* whether navigator.geolocation exists
  loadState,     \* "pending", "loaded" or "failed": the fetch promise chain
  gridData,      \* RiskMap state: the parsed cells
  markers,       \* the layer group drawn by the grid marker effect
  userLocation,  \* RiskMap state: the last fix, or not set
  currentRisk,   \* Index state: the value handed to RiskIndicator
  inflight,      \* pending getCurrentPosition calls: the gridData each
                 \* callback's checkRiskLevel closes over
  issued,        \* number of clicks on "Get My Location" so far
  emitted,       \* sonner calls of the handler that ran last
  lastCheck,     \* the last run of checkRiskLevel
  shown          \* toasts raised and not dismissed by a toast.dismiss()
                 \* since (the expiry of a toast by its timer is not
                 \* modelled: it only takes toasts away)

vars ==
  <<response, geolocation, loadState, gridData, markers, userLocation,
    currentRisk, inflight, issued, emitted, lastCheck, shown>>

NoLocation == [set |-> FALSE, latitude |-> 0, longitude |-> 0]
Location(latitude, longitude) ==
  [set |-> TRUE, latitude |-> latitude, longitude |-> longitude]

Coords == 0..MaxCoord

\* The toasts on display after a handler's sonner calls, in order:
\* toast.dismiss() without an id takes every toast away, any other call
\* adds one.
RECURSIVE AfterCalls(_, _)
AfterCalls(toasts, calls) ==
  IF calls = <<>> THEN toasts
  ELSE AfterCalls(IF Head(calls).type = "dismiss" THEN <<>>
                  ELSE Append(toasts, Head(calls)),
                  Tail(calls))

---------------------------------------------------------------------------
(* Documents the server may hold.                                          *)

RawCoords == Numerals \cup {""}

RECURSIVE SeqsUpTo(_, _)
SeqsUpTo(S, n) ==
  IF n = 0 THEN {<<>>}
  ELSE LET shorter == SeqsUpTo(S, n - 1)
       IN shorter \cup {Append(q, x) : q \in {r \in shorter : Len(r) = n - 1}, x \in S}

Documents(lines) == {<<Header>> \o body : body \in SeqsUpTo(lines, MaxRows)}

\* Lines of a document: complete lines, whose coordinate fields may be
\* empty, and the empty line a trailing line break leaves.
ClassifierLines ==
  {<<x, y, r>> : x \in RawCoords, y \in RawCoords, r \in {"Low", "High"}}
    \cup {<<"">>}

\* Lines of the documents of the session model.
SessionLines ==
  {<<"0", "0", "Low">>,
   <<ToString(MaxCoord), ToString(MaxCoord), "High">>,
   <<"">>}

\* Labels of the lines of the label model: the three levels, a level in
\* another case, an unknown level, the name of an inherited member of
\* riskMessages, and an empty field.
RawLabels == {"Low", "Moderate", "High", "HIGH", "Severe", "constructor", ""}

\* Lines of the documents of the label model: complete lines at the two
\* corners of the coordinate range, a line cut short before its label, and
\* the empty line a trailing line break leaves.
LabelLines ==
  {<<x, x, r>> : x \in {"0", ToString(MaxCoord)}, r \in RawLabels}
    \cup {<<"0", "0">>, <<"">>}

\* The body of a non-success HTTP answer: an HTML error page.
ErrorPage == <<<<"<!DOCTYPE html>">>, <<"<title>404 Not Found</title>">>>>

Responses ==
  {[kind |-> "networkError", body |-> <<>>],
   [kind |-> "httpError", body |-> ErrorPage]}
    \cup {[kind |-> "ok", body |-> d] : d \in Documents(SessionLines)}

---------------------------------------------------------------------------
(* The session: mount, the CSV load, clicks and geolocation callbacks.     *)

\* State after the first render and its effects: the map exists, the fetch
\* is under way, the marker effect has run over the empty gridData.
Init ==
  /\ response \in Responses
  /\ geolocation \in BOOLEAN
  /\ loadState = "pending"
  /\ gridData = <<>>
  /\ markers = GridMarkers(<<>>)
  /\ userLocation = NoLocation
  /\ currentRisk = Str("unknown")
  /\ inflight = <<>>
  /\ issued = 0
  /\ emitted = <<>>
  /\ lastCheck = NoCheck
  /\ shown = <<>>

\* fetch resolves, whatever the HTTP status; response.text() hands the body
\* to Papa.parse, whose complete callback stores results.data.  The render
\* that follows runs the marker effect over the new gridData.
LoadComplete ==
  /\ loadState = "pending"
  /\ response.kind # "networkError"
  /\ loadState' = "loaded"
  /\ gridData' = PapaParse(response.body)
  /\ markers' = GridMarkers(gridData')
  /\ emitted' = <<Toast("success", "Risk data loaded successfully!")>>
  /\ shown' = AfterCalls(shown, emitted')
  /\ UNCHANGED <<response, geolocation, userLocation, currentRisk, inflight,
                 issued, lastCheck>>

\* fetch rejects: the catch handler.
LoadFailed ==
  /\ loadState = "pending"
  /\ response.kind = "networkError"
  /\ loadState' = "failed"
  /\ emitted' = <<Toast("error", "Failed to load risk data")>>
  /\ shown' = AfterCalls(shown, emitted')
  /\ UNCHANGED <<response, geolocation, gridData, markers, userLocation,
                 currentRisk, inflight, issued, lastCheck>>

\* Click on "Get My Location" without navigator.geolocation.
RequestUnsupported ==
  /\ issued < MaxRequests
  /\ ~geolocation
  /\ issued' = issued + 1
  /\ emitted' = <<Toast("error", "Geolocation is not supported by your browser")>>
  /\ shown' = AfterCalls(shown, emitted')
  /\ UNCHANGED <<response, geolocation, loadState, gridData, markers,
                 userLocation, currentRisk, inflight, lastCheck>>

\* Click on "Get My Location": getCurrentPosition is handed callbacks made
\* by the current render, whose checkRiskLevel closes over that render's
\* gridData.
RequestLocation ==
  /\ issued < MaxRequests
  /\ geolocation
  /\ issued' = issued + 1
  /\ inflight' = Append(inflight, gridData)
  /\ emitted' = <<Toast("loading", "Getting your location...")>>
  /\ shown' = AfterCalls(shown, emitted')
  /\ UNCHANGED <<response, geolocation, loadState, gridData, markers,
                 userLocation, currentRisk, lastCheck>>

Remove(q, i) == SubSeq(q, 1, i - 1) \o SubSeq(q, i + 1, Len(q))

\* Mutation: the success callback consumes the cell list it scanned
\* (gridData.shift() in the loop).
PositionSuccessShifting(i, latitude, longitude) ==
  /\ i \in 1..Len(inflight)
  /\ LET check == CheckRiskLevel(inflight[i], longitude, latitude,
                                 loadState = "loaded")
     IN /\ userLocation' = Location(latitude, longitude)
        /\ lastCheck' = check
        /\ currentRisk' = IF check.calls > 0 THEN check.arg ELSE currentRisk
        /\ emitted' = check.toasts
                        \o <<Toast("dismiss", ""),
                             Toast("success", "Location acquired!")>>
  /\ inflight' = Remove(inflight, i)
  /\ gridData' = IF gridData = <<>> THEN <<>> ELSE Tail(gridData)
  /\ shown' = AfterCalls(shown, emitted')
  /\ UNCHANGED <<response, geolocation, loadState, markers, issued>>

\* Mutation: toast.dismiss() is called before checkRiskLevel.
PositionSuccessDismissFirst(i, latitude, longitude) ==
  /\ i \in 1..Len(inflight)
  /\ LET check == CheckRiskLevel(inflight[i], longitude, latitude,
                                 loadState = "loaded")
     IN /\ userLocation' = Location(latitude, longitude)
        /\ lastCheck' = check
        /\ currentRisk' = IF check.calls > 0 THEN check.arg ELSE currentRisk
        /\ emitted' = <<Toast("dismiss", "")>> \o check.toasts
                        \o <<Toast("success", "Location acquired!")>>
  /\ inflight' = Remove(inflight, i)
  /\ shown' = AfterCalls(shown, emitted')
  /\ UNCHANGED <<response, geolocation, loadState, gridData, markers, issued>>

\* The success callback of the i-th pending request, with the fix
\* (latitude, longitude): setUserLocation, checkRiskLevel(longitude,
\* latitude) of the render that issued the request, toast.dismiss(),
\* toast.success.
PositionSuccess(i, latitude, longitude) ==
  /\ i \in 1..Len(inflight)
  /\ LET check == CheckRiskLevel(inflight[i], longitude, latitude,
                                 loadState = "loaded")
     IN /\ userLocation' = Location(latitude, longitude)
        /\ lastCheck' = check
        /\ currentRisk' = IF check.calls > 0 THEN check.arg ELSE currentRisk
        /\ emitted' = check.toasts
                        \o <<Toast("dismiss", ""),
                             Toast("success", "Location acquired!")>>
  /\ inflight' = Remove(inflight, i)
  /\ shown' = AfterCalls(shown, emitted')
  /\ UNCHANGED <<response, geolocation, loadState, gridData, markers, issued>>

\* Mutation: the error callback clears the position shown.
PositionErrorClearing(i) ==
  /\ i \in 1..Len(inflight)
  /\ inflight' = Remove(inflight, i)
  /\ userLocation' = NoLocation
  /\ emitted' = <<Toast("dismiss", ""), Toast("error", "Failed to get location: ")>>
  /\ shown' = AfterCalls(shown, emitted')
  /\ UNCHANGED <<response, geolocation, loadState, gridData, markers,
                 currentRisk, issued, lastCheck>>

\* The error callback of the i-th pending request: toast.dismiss(),
\* toast.error (error.message is not modelled).
PositionError(i) ==
  /\ i \in 1..Len(inflight)
  /\ inflight' = Remove(inflight, i)
  /\ emitted' = <<Toast("dismiss", ""), Toast("error", "Failed to get location: ")>>
  /\ shown' = AfterCalls(shown, emitted')
  /\ UNCHANGED <<response, geolocation, loadState, gridData, markers,
                 userLocation, currentRisk, issued, lastCheck>>

Next ==
  \/ LoadComplete
  \/ LoadFailed
  \/ RequestUnsupported
  \/ RequestLocation
  \/ \E i \in 1..MaxRequests, latitude \in Coords, longitude \in Coords :
       PositionSuccess(i, latitude, longitude)
  \/ \E i \in 1..MaxRequests : PositionError(i)

Spec == Init /\ [][Next]_vars

---------------------------------------------------------------------------
(* The classifier on its own: every document within the bounds has been    *)
(* loaded, and checkRiskLevel is run on fixes within the bounds.           *)

InitClassifier ==
  /\ response \in {[kind |-> "ok", body |-> d] : d \in Documents(ClassifierLines)}
  /\ geolocation = TRUE
  /\ loadState = "loaded"
  /\ gridData = PapaParse(response.body)
  /\ markers = GridMarkers(gridData)
  /\ userLocation = NoLocation
  /\ currentRisk = Str("unknown")
  /\ inflight = <<>>
  /\ issued = 0
  /\ emitted = <<Toast("success", "Risk data loaded successfully!")>>
  /\ lastCheck = NoCheck
  /\ shown = emitted

\* checkRiskLevel(lon, lat) of the current render, run once on the loaded
\* list.
Classify(lon, lat) ==
  LET check == CheckRiskLevel(gridData, lon, lat, loadState = "loaded")
  IN /\ ~lastCheck.ran
     /\ lastCheck' = check
     /\ currentRisk' = IF check.calls > 0 THEN check.arg ELSE currentRisk
     /\ emitted' = check.toasts
     /\ shown' = AfterCalls(shown, emitted')
     /\ UNCHANGED <<response, geolocation, loadState, gridData, markers,
                    userLocation, inflight, issued>>

NextClassifier == \E lon \in Coords, lat \in Coords : Classify(lon, lat)

SpecClassifier == InitClassifier /\ [][NextClassifier]_vars

\* The same, over documents whose lines vary in their label.
InitLabels ==
  /\ response \in {[kind |-> "ok", body |-> d] : d \in Documents(LabelLines)}
  /\ geolocation = TRUE
  /\ loadState = "loaded"
  /\ gridData = PapaParse(response.body)
  /\ markers = GridMarkers(gridData)
  /\ userLocation = NoLocation
  /\ currentRisk = Str("unknown")
  /\ inflight = <<>>
  /\ issued = 0
  /\ emitted = <<Toast("success", "Risk data loaded successfully!")>>
  /\ lastCheck = NoCheck
  /\ shown = emitted

SpecLabels == InitLabels /\ [][NextClassifier]_vars

---------------------------------------------------------------------------
(* Properties.                                                             *)

\* A center both of whose coordinates are numbers.
NumericCenter(grid) ==
  grid.Grid_Center_Lon.t = "number" /\ grid.Grid_Center_Lat.t = "number"

NumericCenters(cells) == \A k \in 1..Len(cells) : NumericCenter(cells[k])

\* Squared Euclidean distance from a numeric center to the point (lon, lat).
Euclid2(grid, lon, lat) ==
  (grid.Grid_Center_Lon.n - lon) * (grid.Grid_Center_Lon.n - lon)
    + (grid.Grid_Center_Lat.n - lat) * (grid.Grid_Center_Lat.n - lat)

\* C1: over a non-empty list of cells with numeric centers, checkRiskLevel
\* passes to onRiskChange the Dominant_Risk of a cell whose Euclidean
\* distance to the query point is at most that of every cell of the list.
C1_MinimumDistance ==
  (lastCheck.ran /\ lastCheck.cells # <<>> /\ NumericCenters(lastCheck.cells)) =>
    /\ lastCheck.nearestGrid \in 1..Len(lastCheck.cells)
    /\ lastCheck.calls = 1
    /\ lastCheck.arg = lastCheck.cells[lastCheck.nearestGrid].Dominant_Risk
    /\ \A k \in 1..Len(lastCheck.cells) :
         Euclid2(lastCheck.cells[lastCheck.nearestGrid], lastCheck.lon, lastCheck.lat)
           <= Euclid2(lastCheck.cells[k], lastCheck.lon, lastCheck.lat)

\* A run over two numeric cells in which the second is strictly nearer and
\* is the one selected.
C1_Witness ==
  /\ lastCheck.ran
  /\ Len(lastCheck.cells) = 2
  /\ NumericCenters(lastCheck.cells)
  /\ Euclid2(lastCheck.cells[2], lastCheck.lon, lastCheck.lat)
       < Euclid2(lastCheck.cells[1], lastCheck.lon, lastCheck.lat)
  /\ lastCheck.nearestGrid = 2
  /\ currentRisk = lastCheck.cells[2].Dominant_Risk

\* C2: whenever the list scanned is non-empty, checkRiskLevel calls
\* onRiskChange exactly once, with the Dominant_Risk of a cell of the list.
C2_LabelOfSomeCell ==
  (lastCheck.ran /\ lastCheck.cells # <<>>) =>
    /\ lastCheck.calls = 1
    /\ \E k \in 1..Len(lastCheck.cells) :
         lastCheck.arg = lastCheck.cells[k].Dominant_Risk

\* C3: after a run of checkRiskLevel over an empty list, onRiskChange was
\* not called, no risk notification was raised, and RiskIndicator shows the
\* "Unknown" configuration.
C3_EmptyListUnknown ==
  (lastCheck.ran /\ lastCheck.cells = <<>>) =>
    /\ lastCheck.calls = 0
    /\ lastCheck.toasts = <<>>
    /\ GetRiskConfig(currentRisk) = "Unknown"

\* C4: a run of checkRiskLevel made once the CSV load has completed scans
\* the loaded dataset, never the initial empty gridData.
C4_ScansLoadedDataset ==
  (lastCheck.ran /\ lastCheck.loaded) => lastCheck.cells = gridData

\* The handler that ran last is a geolocation success callback and no
\* request is pending.
AllCompletedBySuccess ==
  /\ inflight = <<>>
  /\ Len(emitted) >= 2
  /\ emitted[Len(emitted)] = Toast("success", "Location acquired!")

\* C5: once every pending request has completed, the position shown and the
\* risk shown are both the result of the request whose callback completed
\* last (the risk being unknown when that request selected no cell).
C5_LastWriteWins ==
  AllCompletedBySuccess =>
    /\ userLocation = Location(lastCheck.lat, lastCheck.lon)
    /\ currentRisk = IF lastCheck.calls = 1 THEN lastCheck.arg ELSE Str("unknown")

GeolocationFailure ==
  \/ RequestUnsupported
  \/ \E i \in 1..MaxRequests : PositionError(i)

\* C6: a geolocation failure (the error callback, or a click without
\* navigator.geolocation) raises an error notification, leaves userLocation
\* as it was, runs no checkRiskLevel and calls no onRiskChange, so the risk
\* shown is unchanged and an indicator in the "Unknown" state remains there.
C6_GeolocationFailureNonFatal ==
  [][GeolocationFailure =>
       /\ emitted'[Len(emitted')].type = "error"
       /\ userLocation' = userLocation
       /\ lastCheck' = lastCheck
       /\ currentRisk' = currentRisk
       /\ (GetRiskConfig(currentRisk) = "Unknown"
             => GetRiskConfig(currentRisk') = "Unknown")
       /\ gridData' = gridData]_vars

\* The error callback has run after an earlier fix: the position of that
\* fix is still shown.
C6_Witness ==
  /\ emitted = <<Toast("dismiss", ""), Toast("error", "Failed to get location: ")>>
  /\ userLocation.set
  /\ issued = MaxRequests
  /\ inflight = <<>>

\* C7: whenever the load has ended and the server's answer was not the CSV
\* document (rejected fetch, non-success HTTP answer), the catch handler has
\* raised its error notification, gridData is the empty list and the risk
\* shown is "Unknown".
C7_LoadFailureNonFatal ==
  (response.kind # "ok" /\ loadState # "pending") =>
    /\ loadState = "failed"
    /\ (issued = 0 => emitted = <<Toast("error", "Failed to load risk data")>>)
    /\ gridData = <<>>
    /\ GetRiskConfig(currentRisk) = "Unknown"

\* C8: gridData changes only in the step that completes the load, from the
\* empty list; the load completes at most once, and no later step (click,
\* success or error callback) changes a cell.
C8_GridReadOnlyAfterLoad ==
  [][/\ gridData' # gridData =>
          (loadState = "pending" /\ loadState' = "loaded" /\ gridData = <<>>)
     /\ loadState # "pending" =>
          (loadState' = loadState /\ gridData' = gridData)]_vars

\* Every request was issued after a non-empty load and has completed, the
\* last one by a fix that was classified over the loaded list.
C8_Witness ==
  /\ loadState = "loaded"
  /\ gridData # <<>>
  /\ issued = MaxRequests
  /\ inflight = <<>>
  /\ lastCheck.ran
  /\ lastCheck.loaded
  /\ lastCheck.calls = 1
  /\ lastCheck.cells = gridData

\* A center whose coordinates the subtraction coerces to numbers.
Coercible(grid) ==
  /\ grid.Grid_Center_Lon.t \in {"number", "null"}
  /\ grid.Grid_Center_Lat.t \in {"number", "null"}

Coerced(v) == IF v.t = "number" THEN v.n ELSE 0

Coerced2(grid, lon, lat) ==
  (Coerced(grid.Grid_Center_Lon) - lon) * (Coerced(grid.Grid_Center_Lon) - lon)
    + (Coerced(grid.Grid_Center_Lat) - lat) * (Coerced(grid.Grid_Center_Lat) - lat)

\* C9: among the cells at the same distance as the selected cell, the
\* selected cell has the lowest index in the list.
C9_FirstOfTies ==
  (lastCheck.ran /\ lastCheck.nearestGrid # 0) =>
    /\ Coercible(lastCheck.cells[lastCheck.nearestGrid])
    /\ \A k \in 1..Len(lastCheck.cells) :
         (/\ Coercible(lastCheck.cells[k])
          /\ Coerced2(lastCheck.cells[k], lastCheck.lon, lastCheck.lat)
               = Coerced2(lastCheck.cells[lastCheck.nearestGrid],
                          lastCheck.lon, lastCheck.lat))
           => lastCheck.nearestGrid <= k

\* Two cells with different numeric centers and different labels at the
\* same distance from the fix: the first is selected.
C9_Witness ==
  /\ lastCheck.ran
  /\ Len(lastCheck.cells) = 2
  /\ NumericCenters(lastCheck.cells)
  /\ lastCheck.cells[1].Grid_Center_Lon # lastCheck.cells[2].Grid_Center_Lon
  /\ lastCheck.cells[1].Dominant_Risk # lastCheck.cells[2].Dominant_Risk
  /\ Euclid2(lastCheck.cells[1], lastCheck.lon, lastCheck.lat)
       = Euclid2(lastCheck.cells[2], lastCheck.lon, lastCheck.lat)
  /\ lastCheck.nearestGrid = 1
  /\ currentRisk = lastCheck.cells[1].Dominant_Risk

\* A coordinate that is zero or missing (an empty field, or a field the
\* line does not have).
ZeroOrMissing(v) ==
  \/ v.t \in {"null", "undefined"}
  \/ v.t = "number" /\ v.n = 0

ZeroOrMissingCenter(grid) ==
  ZeroOrMissing(grid.Grid_Center_Lon) \/ ZeroOrMissing(grid.Grid_Center_Lat)

RECURSIVE Without(_)
Without(cells) ==
  IF cells = <<>> THEN <<>>
  ELSE IF ZeroOrMissingCenter(Head(cells)) THEN Without(Tail(cells))
  ELSE <<Head(cells)>> \o Without(Tail(cells))

\* C10: the marker pass skips exactly the cells with a zero or missing
\* center coordinate, while the classifier keeps them as candidates: a
\* non-empty list of only such cells still yields the label of one of them.
C10_ZeroOrMissingArePresent ==
  /\ markers = Without(gridData)
  /\ (/\ lastCheck.ran
      /\ lastCheck.cells # <<>>
      /\ \A k \in 1..Len(lastCheck.cells) : ZeroOrMissingCenter(lastCheck.cells[k]))
       => /\ lastCheck.calls = 1
          /\ \E k \in 1..Len(lastCheck.cells) :
               lastCheck.arg = lastCheck.cells[k].Dominant_Risk

\* The cell's center is numeric and is the point (lon, lat).
CenterAt(grid, lon, lat) ==
  /\ NumericCenter(grid)
  /\ grid.Grid_Center_Lon.n = lon
  /\ grid.Grid_Center_Lat.n = lat

\* Cell k is the only cell of the list at distance zero from (lon, lat).
OnlyCellAt(cells, k, lon, lat) ==
  /\ CenterAt(cells[k], lon, lat)
  /\ \A j \in 1..Len(cells) :
       (j # k /\ Coercible(cells[j])) => Coerced2(cells[j], lon, lat) # 0

\* C11: when the query point is the center of a cell and no other cell is at
\* distance zero, checkRiskLevel selects that cell and passes its
\* Dominant_Risk to onRiskChange.
C11_CellAtItsCenter ==
  lastCheck.ran =>
    \A k \in 1..Len(lastCheck.cells) :
      OnlyCellAt(lastCheck.cells, k, lastCheck.lon, lastCheck.lat) =>
        /\ lastCheck.nearestGrid = k
        /\ lastCheck.calls = 1
        /\ lastCheck.arg = lastCheck.cells[k].Dominant_Risk
        /\ currentRisk = lastCheck.cells[k].Dominant_Risk

\* The fix is the center of the second of two cells with different labels;
\* the first lies elsewhere.
C11_Witness ==
  /\ lastCheck.ran
  /\ Len(lastCheck.cells) = 2
  /\ NumericCenters(lastCheck.cells)
  /\ OnlyCellAt(lastCheck.cells, 2, lastCheck.lon, lastCheck.lat)
  /\ lastCheck.cells[1].Dominant_Risk # lastCheck.cells[2].Dominant_Risk
  /\ lastCheck.nearestGrid = 2
  /\ currentRisk = lastCheck.cells[2].Dominant_Risk

Levels == {Str("Low"), Str("Moderate"), Str("High")}

\* C12: a run of checkRiskLevel that selects a cell raises exactly one risk
\* notification: an error iff the label is "High", a warning iff it is
\* "Moderate", a success for every other label, "Low" with its own message
\* and any other label with "Unknown risk level"; a run that selects no cell
\* raises none.
C12_SeverityFollowsLabel ==
  lastCheck.ran =>
    IF lastCheck.nearestGrid = 0 THEN lastCheck.toasts = <<>> /\ emitted = <<>>
    ELSE LET label == lastCheck.cells[lastCheck.nearestGrid].Dominant_Risk
             toast == lastCheck.toasts[1]
         IN /\ Len(lastCheck.toasts) = 1
            /\ emitted = lastCheck.toasts
            /\ toast.type = "error" <=> label = Str("High")
            /\ toast.type = "warning" <=> label = Str("Moderate")
            /\ label \notin {Str("High"), Str("Moderate")} => toast.type = "success"
            /\ label = Str("Low") =>
                 toast.message = "You are in a Low risk zone. Stay alert for updates."
            /\ label \notin Levels => toast.message = "Unknown risk level"

\* The level a string names, whatever its case.
NamedLevel(s) ==
  IF s \in {"low", "Low", "LOW"} THEN "Low Risk"
  ELSE IF s \in {"moderate", "Moderate", "MODERATE"} THEN "Moderate Risk"
  ELSE IF s \in {"high", "High", "HIGH"} THEN "High Risk"
  ELSE "Unknown"

\* C13: RiskIndicator always shows one of the Low, Moderate, High and
\* Unknown configurations: getRiskConfig raises no error on the value held
\* by the page, and returns the configuration of the level the value names,
\* in any case, and the Unknown configuration otherwise.
C13_DisplayedRiskIsALevel ==
  /\ GetRiskConfig(currentRisk) \in {"Low Risk", "Moderate Risk", "High Risk", "Unknown"}
  /\ currentRisk.t = "string" => GetRiskConfig(currentRisk) = NamedLevel(currentRisk.s)

\* Cell k is the first cell of the list at minimum distance from (lon, lat).
FirstNearest(cells, k, lon, lat) ==
  /\ k \in 1..Len(cells)
  /\ Coercible(cells[k])
  /\ \A j \in 1..Len(cells) :
       Coercible(cells[j]) =>
         /\ Coerced2(cells[k], lon, lat) <= Coerced2(cells[j], lon, lat)
         /\ j < k => Coerced2(cells[k], lon, lat) < Coerced2(cells[j], lon, lat)

\* C14: whenever the risk shown is not "unknown", a position is shown and
\* the risk shown is the Dominant_Risk of the first cell of the loaded
\* gridData at minimum distance from that position.
C14_PositionAndRiskConsistent ==
  currentRisk # Str("unknown") =>
    /\ userLocation.set
    /\ \E k \in 1..Len(gridData) :
         /\ FirstNearest(gridData, k, userLocation.longitude, userLocation.latitude)
         /\ currentRisk = gridData[k].Dominant_Risk

\* The handler that ran last called toast.dismiss(): it is a geolocation
\* callback.
CallbackRanLast == \E k \in 1..Len(emitted) : emitted[k].type = "dismiss"

\* C15: a click raises the loading notification and nothing else; a
\* geolocation callback raises the risk notification of its checkRiskLevel
\* run, if any, before its one toast.dismiss(), and after the dismiss only
\* its final message ("Location acquired!" or the error), so that once a
\* callback has completed that message is the only toast left and no
\* loading notification is on display.
C15_NotificationOrder ==
  /\ (emitted # <<>> /\ emitted[1].type = "loading") =>
       /\ Len(emitted) = 1
       /\ inflight # <<>>
       /\ shown # <<>>
       /\ shown[Len(shown)] = Toast("loading", "Getting your location...")
  /\ CallbackRanLast =>
       LET n == Len(emitted)
       IN /\ n >= 2
          /\ \A k \in 1..n : emitted[k].type = "dismiss" <=> k = n - 1
          /\ \/ /\ emitted[n] = Toast("success", "Location acquired!")
                /\ SubSeq(emitted, 1, n - 2) = lastCheck.toasts
             \/ /\ emitted[n] = Toast("error", "Failed to get location: ")
                /\ n = 2
          /\ shown = <<emitted[n]>>
          /\ \A k \in 1..Len(shown) : shown[k].type # "loading"

\* A success callback has raised the High risk notification and dismissed
\* it together with the loading notification of a request still pending.
C15_Witness ==
  /\ emitted = <<RiskToast(Str("High")), Toast("dismiss", ""),
                 Toast("success", "Location acquired!")>>
  /\ inflight # <<>>
  /\ shown = <<Toast("success", "Location acquired!")>>

====
